---- MODULE Spec2Model ----
(***************************************************************************)
(* The batch transcription pipeline of src/main.py: main() lists the input *)
(* directory and calls process_video_file once per .mp4 file; each call    *)
(* extracts the audio, splits it into chunks (split_audio), recognises     *)
(* every chunk (transcribe_audio_chunks), saves the transcript and cleans  *)
(* up in its finally block.                                                *)
(*                                                                         *)
(* Strings are sequences of one-character strings.  Durations are whole    *)
(* numbers of time units.  The outcomes of the external calls (moviepy,    *)
(* speech_recognition, the file system) are chosen nondeterministically.   *)
(* os.remove of a file the program has itself written and closed is taken  *)
(* to succeed.                                                             *)
(***************************************************************************)
EXTENDS Integers, Sequences, FiniteSets, TLC

VARIABLES
  pc,               \* control position of the program
  input_dir,        \* the files present in the "input" directory
  video_files,      \* main: the list of eligible files
  idx,              \* main: position of the for loop in video_files
  successful,       \* main: the success counter
  summary,          \* the "succeeded/total" line printed by main
  calls,            \* per file: number of process_video_file invocations
  status,           \* per file: how its unit ended
  stage,            \* stage of the unit of work in progress
  reason,           \* why the unit in progress returned None
  ret,              \* return value of process_video_file
  audio_file,       \* per file: the extracted audio file exists
  chunk_files,      \* per file: indices of the chunk files on disk
  transcript_file,  \* per file: content of the transcript file
  chunk_duration,   \* split_audio: parameter chunk_duration
  duration,         \* split_audio: local duration
  num_chunks,       \* split_audio: local num_chunks
  i,                \* split_audio: loop variable
  ranges,           \* split_audio: <<start_time, end_time>> of each chunk written
  split_raised,     \* split_audio ended in its except branch
  chunks,           \* the list of chunk paths (a path is named by its index)
  j,                \* transcribe_audio_chunks: position in chunks (1-based)
  full_text,        \* transcribe_audio_chunks: local full_text
  results,          \* one record per recognition attempt, in order
  transcribed_text, \* process_video_file: local transcribed_text
  original,         \* compare_texts: parameter original
  transcribed,      \* compare_texts: parameter transcribed
  score             \* compare_texts: return value, <<numerator, denominator>>

vars == <<pc, input_dir, video_files, idx, successful, summary, calls, status,
          stage, reason, ret, audio_file, chunk_files, transcript_file,
          chunk_duration, duration, num_chunks, i, ranges, split_raised,
          chunks, j, full_text, results, transcribed_text,
          original, transcribed, score>>

(***************************************************************************)
(* Bounds and constants                                                    *)
(***************************************************************************)
MaxFiles == 3

MaxDuration == 121

MaxChunkDuration == 3

MaxTextLen == 3

DefaultChunkDuration == 60

Files == 1..MaxFiles

Durations == 0..MaxDuration

None == "None"

\* The content of a path where no file is: a sequence that is no text (its
\* element is not a character), so that it compares with every content.
NoFile == <<"NoFile">>

NoSummary == "NoSummary"

\* The texts recognize_google returns (it raises UnknownValueError when the
\* service has no result).
Texts == { <<"a">>, <<"b", "c">> }

Outcomes ==
  [kind : {"Text"}, text : Texts] \cup
  [kind : {"Unrecognized", "RequestFailed", "UnexpectedFailure"}, text : {<<>>}]

(***************************************************************************)
(* Pure functions                                                          *)
(***************************************************************************)
\* The names in the input directory: a.mp4, b.MP4, c.txt, d.mp4, e.MP4, ...
BaseNames == <<"a", "b", "c", "d", "e", "f">>

Extension(f) ==
  CASE f % 3 = 1 -> <<".", "m", "p", "4">>
    [] f % 3 = 2 -> <<".", "M", "P", "4">>
    [] OTHER -> <<".", "t", "x", "t">>

FileName(f) == <<BaseNames[((f - 1) % Len(BaseNames)) + 1]>> \o Extension(f)

LowerChar(c) ==
  CASE c = "M" -> "m"
    [] c = "P" -> "p"
    [] c = "A" -> "a"
    [] c = "B" -> "b"
    [] OTHER -> c

Lower(s) == [k \in 1..Len(s) |-> LowerChar(s[k])]

EndsWith(s, suf) ==
  /\ Len(s) >= Len(suf)
  /\ SubSeq(s, Len(s) - Len(suf) + 1, Len(s)) = suf

\* f.lower().endswith('.mp4')
IsVideo(f) == EndsWith(Lower(FileName(f)), <<".", "m", "p", "4">>)

RECURSIVE ListDir(_, _)
ListDir(S, from) ==
  IF from > MaxFiles THEN <<>>
  ELSE IF from \in S THEN <<from>> \o ListDir(S, from + 1)
  ELSE ListDir(S, from + 1)

RECURSIVE Filter(_)
Filter(s) ==
  IF s = <<>> THEN <<>>
  ELSE IF IsVideo(Head(s)) THEN <<Head(s)>> \o Filter(Tail(s))
  ELSE Filter(Tail(s))

\* A variant that rounds down.
CeilDivFloor(d, c) == d \div c

\* math.ceil(duration / chunk_duration)
CeilDiv(d, c) == IF d % c = 0 THEN d \div c ELSE (d \div c) + 1

Min(a, b) == IF a <= b THEN a ELSE b

\* start_time = i * chunk_duration
StartTime(k, c) == k * c

\* A variant that does not stop at the end of the source.
EndTimeUnclamped(k, c, d) == (k + 1) * c

\* end_time = min((i + 1) * chunk_duration, duration)
EndTime(k, c, d) == Min((k + 1) * c, d)

RECURSIVE Join(_)
Join(parts) ==
  IF parts = <<>> THEN <<>>
  ELSE IF Len(parts) = 1 THEN parts[1]
  ELSE parts[1] \o <<" ">> \o Join(Tail(parts))

\* A variant that only tests for None.
TruthyNotNone(v) == v # None

\* The truth value of an Optional[str]: None and "" are false.
Truthy(v) == v # None /\ v # <<>>

(***************************************************************************)
(* compare_texts and difflib.SequenceMatcher (no junk; the autojunk        *)
(* heuristic only applies to sequences of 200 elements or more).  Indices  *)
(* are 0-based and ranges half-open, as in difflib.  A ratio is the pair   *)
(* <<numerator, denominator>>.                                             *)
(***************************************************************************)
Chars == {"a", "A", "b"}

Strings == UNION {[1..n -> Chars] : n \in 0..MaxTextLen}

\* Length of the common run of a from i and b from j, inside the windows.
RECURSIVE BlockSize(_, _, _, _, _, _)
BlockSize(a, b, p, q, ahi, bhi) ==
  IF p < ahi /\ q < bhi /\ a[p + 1] = b[q + 1]
  THEN 1 + BlockSize(a, b, p + 1, q + 1, ahi, bhi)
  ELSE 0

\* SequenceMatcher.find_longest_match: the longest block a[p:p+k] = b[q:q+k]
\* with alo <= p, p+k <= ahi, blo <= q, q+k <= bhi; of the longest blocks the
\* one that starts earliest in a, and of those the one that starts earliest
\* in b; <<alo, blo, 0>> when nothing matches.
FindLongestMatch(a, b, alo, ahi, blo, bhi) ==
  LET starts == (alo..(ahi - 1)) \X (blo..(bhi - 1))
      size(st) == BlockSize(a, b, st[1], st[2], ahi, bhi)
      best == IF starts = {} THEN 0
              ELSE CHOOSE k \in {size(st) : st \in starts} :
                     \A st \in starts : size(st) <= k
      longest == {st \in starts : size(st) = best}
      first == CHOOSE st \in longest :
                 \A o \in longest :
                   st[1] < o[1] \/ (st[1] = o[1] /\ st[2] <= o[2])
  IN IF best = 0 THEN <<alo, blo, 0>> ELSE <<first[1], first[2], best>>

\* The sum of the sizes of SequenceMatcher.get_matching_blocks: the longest
\* match of the window, then the matches to its left and to its right.
RECURSIVE MatchedLength(_, _, _, _, _, _)
MatchedLength(a, b, alo, ahi, blo, bhi) ==
  LET m == FindLongestMatch(a, b, alo, ahi, blo, bhi)
      p == m[1]
      q == m[2]
      k == m[3]
  IN IF k = 0 THEN 0
     ELSE k
          + (IF alo < p /\ blo < q
             THEN MatchedLength(a, b, alo, p, blo, q) ELSE 0)
          + (IF p + k < ahi /\ q + k < bhi
             THEN MatchedLength(a, b, p + k, ahi, q + k, bhi) ELSE 0)

\* SequenceMatcher.ratio: 2.0 * matches / length, and 1.0 when length is 0.
Ratio(a, b) ==
  LET length == Len(a) + Len(b)
  IN IF length > 0
     THEN <<2 * MatchedLength(a, b, 0, Len(a), 0, Len(b)), length>>
     ELSE <<1, 1>>

\* A variant without the test for empty arguments.
compare_texts_unguarded(o, t) == Ratio(Lower(o), Lower(t))

\* A variant that compares the texts as they are.
compare_texts_cased(o, t) ==
  IF o = <<>> \/ t = <<>> THEN <<0, 1>> ELSE Ratio(o, t)

compare_texts(o, t) ==
  IF o = <<>> \/ t = <<>> THEN <<0, 1>> ELSE Ratio(Lower(o), Lower(t))

(***************************************************************************)
(* Initial state                                                           *)
(***************************************************************************)
\* main never calls compare_texts.
NotCompared ==
  /\ original = <<>>
  /\ transcribed = <<>>
  /\ score = None

UnitLocals ==
  /\ stage = "Idle"
  /\ reason = None
  /\ ret = None
  /\ duration = 0
  /\ num_chunks = 0
  /\ i = 0
  /\ ranges = <<>>
  /\ split_raised = FALSE
  /\ chunks = <<>>
  /\ j = 1
  /\ full_text = <<>>
  /\ results = <<>>
  /\ transcribed_text = <<>>

Init ==
  /\ pc = "main"
  /\ input_dir \in SUBSET Files
  /\ video_files = <<>>
  /\ idx = 1
  /\ successful = 0
  /\ summary = NoSummary
  /\ calls = [f \in Files |-> 0]
  /\ status = [f \in Files |-> None]
  /\ audio_file = [f \in Files |-> FALSE]
  /\ chunk_files = [f \in Files |-> {}]
  /\ transcript_file = [f \in Files |-> NoFile]
  /\ chunk_duration = DefaultChunkDuration
  /\ UnitLocals
  /\ NotCompared

cur == video_files[idx]

mainVars == <<input_dir, video_files, idx, successful, summary, calls, status>>

diskVars == <<audio_file, chunk_files, transcript_file>>

splitVars == <<chunk_duration, duration, num_chunks, i, ranges, split_raised>>

transVars == <<j, full_text, results>>

cmpVars == <<original, transcribed, score>>

(***************************************************************************)
(* main                                                                    *)
(***************************************************************************)
ListVideos ==
  /\ pc = "main"
  /\ video_files' = Filter(ListDir(input_dir, 1))
  /\ pc' = IF video_files' = <<>> THEN "exit" ELSE "loop"
  /\ UNCHANGED <<cmpVars, input_dir, idx, successful, summary, calls, status, stage,
                 reason, ret, diskVars, splitVars, chunks, transVars,
                 transcribed_text>>

\* for video_file in video_files: process_video_file(video_path)
CallProcess ==
  /\ pc = "loop"
  /\ idx <= Len(video_files)
  /\ calls' = [calls EXCEPT ![cur] = @ + 1]
  /\ stage' = "Start"
  /\ pc' = "exists"
  /\ UNCHANGED <<cmpVars, input_dir, video_files, idx, successful, summary, status,
                 reason, ret, diskVars, splitVars, chunks, transVars,
                 transcribed_text>>

\* A variant that counts every call.
CountedAlways(n, r) == n + 1

Counted(n, r) == IF Truthy(r) THEN n + 1 ELSE n

\* if process_video_file(video_path): successful += 1, and the next iteration.
\* The locals of the finished call are gone.
CountResult ==
  /\ pc = "returned"
  /\ successful' = Counted(successful, ret)
  /\ status' = [status EXCEPT ![cur] = stage]
  /\ idx' = idx + 1
  /\ pc' = "loop"
  /\ stage' = "Idle"
  /\ reason' = None
  /\ ret' = None
  /\ split_raised' = FALSE
  /\ chunks' = <<>>
  /\ j' = 1
  /\ full_text' = <<>>
  /\ results' = <<>>
  /\ transcribed_text' = <<>>
  /\ UNCHANGED <<cmpVars, input_dir, video_files, summary, calls, diskVars,
                 chunk_duration, duration, num_chunks, i, ranges>>

Summary ==
  /\ pc = "loop"
  /\ idx > Len(video_files)
  /\ summary' = <<successful, Len(video_files)>>
  /\ pc' = "exit"
  /\ UNCHANGED <<cmpVars, input_dir, video_files, idx, successful, calls, status, stage,
                 reason, ret, diskVars, splitVars, chunks, transVars,
                 transcribed_text>>

(***************************************************************************)
(* process_video_file                                                      *)
(***************************************************************************)
\* Every "return None" inside the try block: the finally block runs next.
ReturnNone(why) ==
  /\ reason' = why
  /\ ret' = None
  /\ pc' = "finally"

\* if not os.path.exists(video_path): return None  (before the try block,
\* so the finally block does not run)
CheckExists ==
  /\ pc = "exists"
  /\ \E exists \in BOOLEAN :
       IF exists
       THEN /\ pc' = "extract"
            /\ UNCHANGED <<stage, reason, ret>>
       ELSE /\ stage' = "Failed"
            /\ reason' = "NotFound"
            /\ ret' = None
            /\ pc' = "returned"
  /\ UNCHANGED <<cmpVars, mainVars, diskVars, splitVars, chunks, transVars,
                 transcribed_text>>

\* A variant whose failure branch does not return.
ExtractAudioNoReturn ==
  /\ pc = "extract"
  /\ \/ /\ audio_file' = [audio_file EXCEPT ![cur] = TRUE]
        /\ stage' = "SourceAcquired"
     \/ /\ \E partial \in BOOLEAN :
             audio_file' = [audio_file EXCEPT ![cur] = partial]
        /\ UNCHANGED stage
  /\ pc' = "split"
  /\ UNCHANGED <<cmpVars, mainVars, reason, ret, chunk_files, transcript_file,
                 splitVars, chunks, transVars, transcribed_text>>

\* extract_audio: writes the audio file, or prints the error and returns None
\* (write_audiofile may already have created the file).
ExtractAudio ==
  /\ pc = "extract"
  /\ \/ /\ audio_file' = [audio_file EXCEPT ![cur] = TRUE]
        /\ stage' = "SourceAcquired"
        /\ pc' = "split"
        /\ UNCHANGED <<reason, ret>>
     \/ /\ \E partial \in BOOLEAN :
             audio_file' = [audio_file EXCEPT ![cur] = partial]
        /\ ReturnNone("ExtractionFailed")
        /\ UNCHANGED stage
  /\ UNCHANGED <<cmpVars, mainVars, chunk_files, transcript_file, splitVars, chunks,
                 transVars, transcribed_text>>

\* if not chunks: return None
CheckSplit ==
  /\ pc = "check_split"
  /\ IF chunks = <<>>
     THEN /\ ReturnNone("SegmentationFailed")
          /\ UNCHANGED stage
     ELSE /\ stage' = "Segmented"
          /\ pc' = "transcribe"
          /\ UNCHANGED <<reason, ret>>
  /\ UNCHANGED <<cmpVars, mainVars, diskVars, splitVars, chunks, transVars,
                 transcribed_text>>

\* if not transcribed_text: return None
CheckText ==
  /\ pc = "check_text"
  /\ IF ~Truthy(transcribed_text)
     THEN ReturnNone("NoTranscribableAudio")
     ELSE /\ pc' = "save"
          /\ UNCHANGED <<reason, ret>>
  /\ UNCHANGED <<cmpVars, mainVars, stage, diskVars, splitVars, chunks, transVars,
                 transcribed_text>>

\* A variant that goes on to return the text when the write has raised.
SaveTranscriptIgnoreError ==
  /\ pc = "save"
  /\ \/ transcript_file' = [transcript_file EXCEPT ![cur] = transcribed_text]
     \/ transcript_file' = [transcript_file EXCEPT ![cur] = <<>>]
     \/ UNCHANGED transcript_file
  /\ ret' = transcribed_text
  /\ pc' = "finally"
  /\ UNCHANGED <<cmpVars, mainVars, stage, reason, audio_file, chunk_files,
                 splitVars, chunks, transVars, transcribed_text>>

\* open(transcript_path, "w") and f.write: the file holds the text, or the
\* write raised (open may already have created an empty file) and the call
\* returns None.
SaveTranscript ==
  /\ pc = "save"
  /\ \/ /\ transcript_file' = [transcript_file EXCEPT ![cur] = transcribed_text]
        /\ ret' = transcribed_text
        /\ pc' = "finally"
        /\ UNCHANGED reason
     \/ /\ \E left \in {transcript_file[cur], <<>>} :
             transcript_file' = [transcript_file EXCEPT ![cur] = left]
        /\ ReturnNone("PersistenceFailed")
  /\ UNCHANGED <<cmpVars, mainVars, stage, audio_file, chunk_files, splitVars, chunks,
                 transVars, transcribed_text>>

\* finally: if os.path.exists(audio_path): os.remove(audio_path); then the
\* call returns.
Finally ==
  /\ pc = "finally"
  /\ audio_file' = [audio_file EXCEPT ![cur] = FALSE]
  /\ stage' = IF ret = None THEN "Failed" ELSE "Completed"
  /\ pc' = "returned"
  /\ UNCHANGED <<cmpVars, mainVars, reason, ret, chunk_files, transcript_file,
                 splitVars, chunks, transVars, transcribed_text>>

(***************************************************************************)
(* split_audio                                                             *)
(***************************************************************************)
\* A variant that returns the chunks written before the exception.
SplitRaiseKeep ==
  /\ split_raised' = TRUE
  /\ duration' = 0
  /\ num_chunks' = 0
  /\ i' = 0
  /\ ranges' = <<>>
  /\ pc' = "check_split"
  /\ UNCHANGED chunks

\* The except branch: print the error, return [].  Nothing written so far is
\* removed.
SplitRaise ==
  /\ split_raised' = TRUE
  /\ chunks' = <<>>
  /\ duration' = 0
  /\ num_chunks' = 0
  /\ i' = 0
  /\ ranges' = <<>>
  /\ pc' = "check_split"

\* audio = AudioFileClip(audio_path); duration = audio.duration;
\* num_chunks = math.ceil(duration / chunk_duration)
SplitOpen ==
  /\ pc = "split"
  /\ \/ /\ \E d \in Durations :
             /\ duration' = d
             /\ num_chunks' = CeilDiv(d, chunk_duration)
        /\ i' = 0
        /\ chunks' = <<>>
        /\ ranges' = <<>>
        /\ pc' = "split_loop"
        /\ UNCHANGED split_raised
     \/ SplitRaise
  /\ UNCHANGED <<cmpVars, mainVars, stage, reason, ret, diskVars, chunk_duration,
                 transVars, transcribed_text>>

\* One iteration of the for loop: the chunk file is written and its path
\* appended, or subclip/write_audiofile raised (taken to leave no file of
\* the chunk being written, the case most favourable to the cleanup).
SplitChunk ==
  /\ pc = "split_loop"
  /\ i < num_chunks
  /\ \/ /\ chunk_files' = [chunk_files EXCEPT ![cur] = @ \cup {i}]
        /\ chunks' = Append(chunks, i)
        /\ ranges' = Append(ranges, <<StartTime(i, chunk_duration),
                                      EndTime(i, chunk_duration, duration)>>)
        /\ i' = i + 1
        /\ UNCHANGED <<pc, duration, num_chunks, split_raised>>
     \/ /\ SplitRaise
        /\ UNCHANGED chunk_files
  /\ UNCHANGED <<cmpVars, mainVars, stage, reason, ret, audio_file, transcript_file,
                 chunk_duration, transVars, transcribed_text>>

\* audio.close() after the loop
SplitClose ==
  /\ pc = "split_loop"
  /\ i >= num_chunks
  /\ pc' = "split_return"
  /\ UNCHANGED <<cmpVars, mainVars, stage, reason, ret, diskVars, splitVars, chunks,
                 transVars, transcribed_text>>

\* return chunks: the locals of split_audio are gone
SplitReturn ==
  /\ pc = "split_return"
  /\ duration' = 0
  /\ num_chunks' = 0
  /\ i' = 0
  /\ ranges' = <<>>
  /\ pc' = "check_split"
  /\ UNCHANGED <<cmpVars, mainVars, stage, reason, ret, diskVars, chunk_duration,
                 split_raised, chunks, transVars, transcribed_text>>

(***************************************************************************)
(* transcribe_audio_chunks                                                 *)
(***************************************************************************)
\* full_text.append(text) in the try body; the three except branches only
\* print.
\* A variant that puts the newest text first.
CollectFront(texts, o) == IF o.kind = "Text" THEN <<o.text>> \o texts ELSE texts

Collect(texts, o) == IF o.kind = "Text" THEN Append(texts, o.text) ELSE texts

\* A variant that leaves the file.
ReleaseNothing(files, c) == files

\* os.remove(chunk_path)
Release(files, c) == files \ {c}

\* A variant that steps over a chunk.
NextChunkSkip(k) == k + 2

\* A variant that stays on the same chunk.
NextChunkStay(k) == k

\* for i, chunk_path in enumerate(chunks)
NextChunk(k) == k + 1

\* The try body of one iteration: the recognition attempt on chunks[j].
RecognizeChunk ==
  /\ pc = "transcribe"
  /\ j <= Len(chunks)
  /\ \E o \in Outcomes :
       /\ results' = Append(results, [index |-> chunks[j], kind |-> o.kind,
                                      text |-> o.text])
       /\ full_text' = Collect(full_text, o)
  /\ pc' = "release"
  /\ UNCHANGED <<cmpVars, mainVars, stage, reason, ret, diskVars, splitVars, chunks, j,
                 transcribed_text>>

\* The finally block of the iteration.
ReleaseChunk ==
  /\ pc = "release"
  /\ chunk_files' = [chunk_files EXCEPT ![cur] = Release(@, chunks[j])]
  /\ j' = NextChunk(j)
  /\ pc' = "transcribe"
  /\ UNCHANGED <<cmpVars, mainVars, stage, reason, ret, audio_file, transcript_file,
                 splitVars, chunks, full_text, results, transcribed_text>>

\* A variant in which a failed attempt ends the loop.
TranscribeReturnOnFailure ==
  /\ pc = "transcribe"
  /\ \/ j > Len(chunks)
     \/ results # <<>> /\ results[Len(results)].kind # "Text"
  /\ transcribed_text' = Join(full_text)
  /\ stage' = "Transcribed"
  /\ full_text' = <<>>
  /\ j' = 1
  /\ pc' = "check_text"
  /\ UNCHANGED <<cmpVars, mainVars, reason, ret, diskVars, splitVars, chunks, results>>

\* return " ".join(full_text), assigned to transcribed_text
TranscribeReturn ==
  /\ pc = "transcribe"
  /\ j > Len(chunks)
  /\ transcribed_text' = Join(full_text)
  /\ stage' = "Transcribed"
  /\ full_text' = <<>>
  /\ j' = 1
  /\ pc' = "check_text"
  /\ UNCHANGED <<cmpVars, mainVars, reason, ret, diskVars, splitVars, chunks, results>>

(***************************************************************************)
(* Specifications                                                          *)
(***************************************************************************)
Next ==
  \/ ListVideos
  \/ CallProcess
  \/ CountResult
  \/ Summary
  \/ CheckExists
  \/ ExtractAudio
  \/ SplitOpen
  \/ SplitChunk
  \/ SplitClose
  \/ SplitReturn
  \/ CheckSplit
  \/ RecognizeChunk
  \/ ReleaseChunk
  \/ TranscribeReturn
  \/ CheckText
  \/ SaveTranscript
  \/ Finally

Spec == Init /\ [][Next]_vars

\* split_audio alone, on any source duration and any chunk duration.
InitSplit ==
  /\ pc = "split"
  /\ input_dir = {1}
  /\ video_files = <<1>>
  /\ idx = 1
  /\ successful = 0
  /\ summary = NoSummary
  /\ calls = [f \in Files |-> IF f = 1 THEN 1 ELSE 0]
  /\ status = [f \in Files |-> None]
  /\ audio_file = [f \in Files |-> f = 1]
  /\ chunk_files = [f \in Files |-> {}]
  /\ transcript_file = [f \in Files |-> NoFile]
  /\ chunk_duration \in 1..MaxChunkDuration
  /\ UnitLocals
  /\ NotCompared

NextSplit ==
  \/ SplitOpen
  \/ SplitChunk
  \/ SplitClose
  \/ SplitReturn

SpecSplit == InitSplit /\ [][NextSplit]_vars

\* The control position of the one thread: the statement it is at and the
\* loop counters of main, split_audio and transcribe_audio_chunks.  Every step
\* of Next changes it.
position == <<pc, idx, i, j>>

\* The program runs on: whenever a step is possible, one is taken (every
\* external call returns or raises).
SpecFair == Init /\ [][Next]_vars /\ WF_position(Next)

\* A KeyboardInterrupt (the only way to abort a run) raised while
\* process_video_file is between the start of the extraction and the end of
\* the save.  No "except Exception" clause catches it: the finally block of
\* the current loop iteration and the finally block of process_video_file
\* run, it leaves main, and the interpreter ends.  Nothing is reported for
\* the unit.
InterruptPoints ==
  {"extract", "split", "split_loop", "split_return", "check_split",
   "transcribe", "release", "check_text", "save"}

Interrupt ==
  /\ pc \in InterruptPoints
  /\ chunk_files' = [chunk_files EXCEPT ![cur] =
                       IF pc = "release" THEN Release(@, chunks[j]) ELSE @]
  /\ \E left \in (IF pc = "save" THEN {transcript_file[cur], <<>>}
                                  ELSE {transcript_file[cur]}) :
       transcript_file' = [transcript_file EXCEPT ![cur] = left]
  /\ audio_file' = [audio_file EXCEPT ![cur] = FALSE]
  /\ pc' = "interrupted"
  /\ UNCHANGED <<cmpVars, mainVars, stage, reason, ret, splitVars, chunks,
                 transVars, transcribed_text>>

NextCancel ==
  \/ Next
  \/ Interrupt

SpecCancel == Init /\ [][NextCancel]_vars

\* compare_texts alone, on any two strings.
InitCompare ==
  /\ pc = "compare"
  /\ input_dir = {}
  /\ video_files = <<>>
  /\ idx = 1
  /\ successful = 0
  /\ summary = NoSummary
  /\ calls = [f \in Files |-> 0]
  /\ status = [f \in Files |-> None]
  /\ audio_file = [f \in Files |-> FALSE]
  /\ chunk_files = [f \in Files |-> {}]
  /\ transcript_file = [f \in Files |-> NoFile]
  /\ chunk_duration = DefaultChunkDuration
  /\ UnitLocals
  /\ original \in Strings
  /\ transcribed \in Strings
  /\ score = None

CompareTexts ==
  /\ pc = "compare"
  /\ score' = compare_texts(original, transcribed)
  /\ pc' = "compared"
  /\ UNCHANGED <<mainVars, stage, reason, ret, diskVars, splitVars, chunks,
                 transVars, transcribed_text, original, transcribed>>

NextCompare == CompareTexts

SpecCompare == InitCompare /\ [][NextCompare]_vars

(***************************************************************************)
(* Properties                                                              *)
(***************************************************************************)
\* The states in which transcribe_audio_chunks has returned for the unit in
\* progress.
AfterTranscription == pc \in {"check_text", "save"} \/ stage = "Transcribed"

HasText(rs) == \E k \in 1..Len(rs) : rs[k].kind = "Text"

\* The text of the first n chunk results: the Text fragments, taken in the
\* order of the attempts, with one space between two fragments.
RECURSIVE TextOf(_, _)
TextOf(rs, n) ==
  IF n = 0 THEN <<>>
  ELSE IF rs[n].kind # "Text" THEN TextOf(rs, n - 1)
  ELSE IF HasText(SubSeq(rs, 1, n - 1))
       THEN TextOf(rs, n - 1) \o <<" ">> \o rs[n].text
       ELSE rs[n].text

\* C1: when split_audio reaches its return statement without an exception,
\* the number n of chunks is ceil(D / C), that is (n - 1) * C < D <= n * C:
\* no chunk when D = 0, and when C does not divide D the last chunk is the
\* shorter one from its start to D.
ChunkCountIsCeiling ==
  pc = "split_return" =>
    LET n == Len(chunks) IN
    /\ n * chunk_duration >= duration
    /\ n > 0 => (n - 1) * chunk_duration < duration
    /\ duration = 0 => n = 0
    /\ Len(ranges) = n
    /\ duration % chunk_duration # 0 =>
         /\ n > 0
         /\ ranges[n] = <<(n - 1) * chunk_duration, duration>>
         /\ ranges[n][2] - ranges[n][1] < chunk_duration

ShortLastChunkReturned ==
  /\ pc = "split_return"
  /\ duration % chunk_duration # 0
  /\ Len(chunks) >= 3
  /\ ~split_raised

\* C2: the transcript transcribe_audio_chunks returns is the space-joined
\* concatenation of the fragments of the chunks whose outcome is Text, in
\* increasing chunk index order; the other chunks contribute nothing.
TranscriptIsJoinOfTexts ==
  AfterTranscription =>
    /\ Len(results) = Len(chunks)
    /\ \A k \in 1..Len(results) : results[k].index = k - 1
    /\ transcribed_text = TextOf(results, Len(results))

MixedOutcomesTranscribed ==
  /\ pc = "check_text"
  /\ Len(results) = 3
  /\ results[1].kind = "Text"
  /\ results[2].kind = "Unrecognized"
  /\ results[3].kind = "Text"
  /\ results[1].text # results[3].text
  /\ transcribed_text = results[1].text \o <<" ">> \o results[3].text

\* The states of a unit in which transcribe_audio_chunks has been called and
\* has returned.
TranscriptionOver == pc \in {"check_text", "save", "finally", "returned"} /\ chunks # <<>>

Attempts(c) == {k \in 1..Len(results) : results[k].index = c}

\* C3: a failed attempt on a chunk does not stop the run: every later chunk
\* is still attempted, and a unit with at least one Text outcome whose
\* transcript is saved ends Completed, its transcript being the texts of the
\* successful chunks in index order.
ChunkFailureIsNotFatal ==
  /\ TranscriptionOver =>
       \A k \in 1..Len(results) :
         results[k].kind # "Text" =>
           \A m \in 1..Len(chunks) :
             chunks[m] > results[k].index => Attempts(chunks[m]) # {}
  /\ (pc = "returned" /\ HasText(results) /\ reason # "PersistenceFailed") =>
       /\ stage = "Completed"
       /\ ret = TextOf(results, Len(results))
       /\ transcript_file[cur] = ret

SecondOfThreeFailedCompleted ==
  /\ pc = "returned"
  /\ stage = "Completed"
  /\ Len(results) = 3
  /\ results[1].kind = "Text"
  /\ results[2].kind = "RequestFailed"
  /\ results[3].kind = "Text"
  /\ results[1].text # results[3].text
  /\ ret = results[1].text \o <<" ">> \o results[3].text

\* C4: a unit none of whose chunks yields Text ends Failed for lack of
\* transcribable audio: it returns None and writes no transcript file; a
\* Completed unit never has an empty transcript.
NoTextIsFailure ==
  /\ (pc = "returned" /\ results # <<>> /\ ~HasText(results)) =>
       /\ stage = "Failed"
       /\ reason = "NoTranscribableAudio"
       /\ ret = None
       /\ transcript_file[cur] = NoFile
  /\ pc = "save" => HasText(results)
  /\ stage = "Completed" => ret # None /\ ret # <<>> /\ HasText(results)

AllUnrecognizedFailed ==
  /\ pc = "returned"
  /\ Len(results) = 2
  /\ \A k \in 1..2 : results[k].kind = "Unrecognized"
  /\ stage = "Failed"
  /\ reason = "NoTranscribableAudio"

\* C5: when process_video_file has returned, neither the extracted audio
\* file nor any chunk file of the unit exists.
AllAudioReleased ==
  pc = "returned" => ~audio_file[cur] /\ chunk_files[cur] = {}

\* C6: every chunk gets exactly one recognition attempt: never more than
\* one at any time, and exactly one once transcribe_audio_chunks has
\* returned, so there are as many results as chunks.
OneAttemptPerChunk ==
  /\ \A k \in 1..Len(results) : Cardinality(Attempts(results[k].index)) = 1
  /\ Len(results) <= Len(chunks)
  /\ TranscriptionOver =>
       /\ Len(results) = Len(chunks)
       /\ \A m \in 1..Len(chunks) : Cardinality(Attempts(chunks[m])) = 1

ThreeChunksThreeResults ==
  /\ pc = "check_text"
  /\ Len(chunks) = 3
  /\ Len(results) = 3
  /\ results[1].kind = "UnexpectedFailure"
  /\ results[2].kind = "Text"

\* C7: when split_audio raises, the unit fails as a segmentation failure:
\* no chunk is passed on, there is no recognition attempt, no transcript is
\* written, and the call returns None.
SplitFailureFailsFast ==
  split_raised =>
    /\ pc \in {"check_split", "finally", "returned"}
    /\ chunks = <<>>
    /\ results = <<>>
    /\ transcript_file[cur] = NoFile
    /\ pc = "returned" =>
         stage = "Failed" /\ reason = "SegmentationFailed" /\ ret = None

SecondChunkWriteFailed ==
  /\ pc = "returned"
  /\ split_raised
  /\ chunk_files[cur] = {0}
  /\ reason = "SegmentationFailed"

\* C8: in transcribe_audio_chunks the file of a chunk is removed before the
\* attempt on the next chunk begins, whatever the outcome, and no chunk file
\* of the list is left once the function has returned.
ChunkReleasedAfterAttempt ==
  /\ pc \in {"transcribe", "release"} =>
       /\ Len(results) = IF pc = "release" THEN j ELSE j - 1
       /\ \A k \in 1..Len(chunks) : k < j => chunks[k] \notin chunk_files[cur]
  /\ TranscriptionOver =>
       \A k \in 1..Len(chunks) : chunks[k] \notin chunk_files[cur]

FailedChunkReleasedBeforeNext ==
  /\ pc = "transcribe"
  /\ j = 2
  /\ Len(chunks) = 3
  /\ results[1].kind = "RequestFailed"
  /\ chunk_files[cur] = {1, 2}

\* C9: main calls process_video_file exactly once for every eligible file
\* of the input directory, whatever the earlier units did, and the summary
\* gives the number of Completed units over the number of eligible files.
HasMp4Extension(f) ==
  Extension(f) \in { <<".", "m", "p", "4">>, <<".", "M", "P", "4">> }

EligibleFiles == {f \in input_dir : HasMp4Extension(f)}

BatchProcessesEveryFile ==
  /\ \A f \in Files : calls[f] <= 1
  /\ successful = Cardinality({f \in Files : status[f] = "Completed"})
  /\ pc = "exit" =>
       /\ \A f \in Files : calls[f] = IF f \in EligibleFiles THEN 1 ELSE 0
       /\ \A f \in EligibleFiles : status[f] \in {"Completed", "Failed"}
       /\ IF EligibleFiles = {}
          THEN summary = NoSummary
          ELSE summary = <<Cardinality({f \in Files : status[f] = "Completed"}),
                           Cardinality(EligibleFiles)>>

FailedThenCompleted ==
  /\ pc = "exit"
  /\ status[1] = "Failed"
  /\ status[2] = "Completed"
  /\ summary = <<1, 2>>

\* C10: a unit moves Start -> SourceAcquired -> Segmented -> Transcribed ->
\* Completed, or from any of the first four to Failed; a unit whose
\* extraction failed has no chunk and no attempt; an attempt is made only
\* in stage Segmented; the transcript file is written only in stage
\* Transcribed, after every chunk has been attempted.
StageSteps ==
  { <<"Idle", "Start">>, <<"Start", "SourceAcquired">>,
    <<"SourceAcquired", "Segmented">>, <<"Segmented", "Transcribed">>,
    <<"Transcribed", "Completed">>, <<"Completed", "Idle">>,
    <<"Failed", "Idle">> } \cup
  { <<s, "Failed">> : s \in {"Start", "SourceAcquired", "Segmented", "Transcribed"} }

StagesInOrder ==
  /\ [][stage' # stage => <<stage, stage'>> \in StageSteps]_vars
  /\ [][results' # results /\ results' # <<>> => stage = "Segmented"]_vars
  /\ [][transcript_file' # transcript_file =>
          stage = "Transcribed" /\ Len(results) = Len(chunks)]_vars
  /\ [](reason \in {"NotFound", "ExtractionFailed"} =>
          /\ pc \in {"finally", "returned"}
          /\ chunks = <<>>
          /\ results = <<>>
          /\ chunk_files[cur] = {})

CompletedThroughAllStages ==
  /\ pc = "returned"
  /\ stage = "Completed"
  /\ Len(results) = 2
  /\ transcript_file[cur] = ret

\* C11: compare_texts returns 0.0 when either argument is empty, and 1.0
\* (2 * M = T) when both are non-empty and equal up to letter case.
SameLetters(x, y) ==
  /\ Len(x) = Len(y)
  /\ \A k \in 1..Len(x) :
       \/ x[k] = y[k]
       \/ {x[k], y[k]} \in {{"a", "A"}, {"b", "B"}}

EmptyIsZeroIdenticalIsOne ==
  pc = "compared" =>
    /\ (original = <<>> \/ transcribed = <<>>) => score[1] = 0 /\ score[2] > 0
    /\ (original # <<>> /\ SameLetters(original, transcribed)) =>
         /\ score[1] = score[2]
         /\ score[2] = Len(original) + Len(transcribed)

CaseVariantsScoreOne ==
  /\ pc = "compared"
  /\ original = <<"A", "b", "a">>
  /\ transcribed = <<"a", "b", "A">>
  /\ score = <<6, 6>>

\* C12: a source of duration 0 gives an empty chunk list and is not an
\* error: the unit is reported as a failed split only when split_audio
\* failed (split_audio returns no chunk without raising only for duration 0).
ZeroDurationIsNotAnError ==
  /\ (pc = "split_return" /\ duration = 0) => chunks = <<>>
  /\ (pc \in {"finally", "returned"} /\ reason = "SegmentationFailed") =>
       split_raised

\* C13: a unit aborted between the start of its extraction and the end of
\* its save has no transcript file, its chunk results are discarded, and it
\* is reported Failed with status Cancelled.
CancelledUnitIsReported ==
  pc = "interrupted" =>
    /\ transcript_file[cur] = NoFile
    /\ status[cur] = "Failed"
    /\ reason = "Cancelled"

\* C14: the chunks split_audio writes tile the source: chunk k (0-based) is
\* the k-th of the list and covers [k * C, min((k + 1) * C, D)), a non-empty
\* range inside [0, D); every chunk starts where the previous one ends, the
\* first at 0, and when the loop is over the last one ends at D.
ChunksTileTheSource ==
  pc \in {"split_loop", "split_return"} =>
    /\ Len(ranges) = Len(chunks)
    /\ \A k \in 1..Len(chunks) :
         /\ chunks[k] = k - 1
         /\ ranges[k][1] = (k - 1) * chunk_duration
         /\ ranges[k][2] = IF k * chunk_duration <= duration
                           THEN k * chunk_duration ELSE duration
         /\ ranges[k][2] > ranges[k][1]
         /\ ranges[k][2] <= duration
         /\ ranges[k][1] = IF k = 1 THEN 0 ELSE ranges[k - 1][2]
    /\ (pc = "split_return" /\ duration > 0) =>
         /\ chunks # <<>>
         /\ ranges[Len(ranges)][2] = duration

ThreeChunksTiled ==
  /\ pc = "split_return"
  /\ Len(chunks) = 3
  /\ duration % chunk_duration # 0
  /\ ranges[1][1] = 0
  /\ ranges[2][1] = ranges[1][2]
  /\ ranges[3] = <<2 * chunk_duration, duration>>

\* C15: the value compare_texts returns lies in [0, 1] (0 <= 2 * M <= T),
\* and it is the value returned for the same two texts with the letter case
\* of either one changed.
CaseVariants(x) == {y \in [1..Len(x) -> Chars] : SameLetters(x, y)}

ScoreInRangeAndCaseBlind ==
  pc = "compared" =>
    /\ score[2] > 0
    /\ 0 <= score[1]
    /\ score[1] <= score[2]
    /\ \A o \in CaseVariants(original) :
         compare_texts(o, transcribed) = score
    /\ \A t \in CaseVariants(transcribed) :
         compare_texts(original, t) = score

PartialMatchMixedCase ==
  /\ pc = "compared"
  /\ original = <<"A", "b", "a">>
  /\ transcribed = <<"b", "A">>
  /\ score = <<4, 5>>

\* C16: a unit is counted only if its transcript was saved: the call returns
\* a text only when the transcript file holds exactly that text, which is
\* not empty; when the save fails the call returns None, the unit is Failed
\* and the counter stays.
CountedOnlyIfPersisted ==
  /\ [](pc = "returned" /\ ret # None =>
          /\ ret # <<>>
          /\ transcript_file[cur] = ret
          /\ stage = "Completed")
  /\ [](pc = "returned" /\ reason = "PersistenceFailed" =>
          ret = None /\ stage = "Failed")
  /\ [][successful' # successful =>
          /\ successful' = successful + 1
          /\ pc = "returned"
          /\ ret # None
          /\ transcript_file[cur] = ret]_position
  /\ [][pc = "returned" /\ reason = "PersistenceFailed" =>
          successful' = successful]_position

FailedSaveNotCounted ==
  /\ pc = "exit"
  /\ status[1] = "Failed"
  /\ transcript_file[1] # NoFile
  /\ transcript_file[1] = <<>>
  /\ status[2] = "Completed"
  /\ transcript_file[2] # NoFile
  /\ transcript_file[2] = <<"b", "c", " ", "a">>
  /\ summary = <<1, 2>>

\* C17: every unit reaches Completed or Failed and the batch reaches its
\* end, within a bounded number of steps: StepsLeft bounds the steps that
\* remain (one pass over the files, one pass over the chunks of each unit)
\* and every step lowers it.
MaxChunks == CeilDiv(MaxDuration, chunk_duration)

UnitSteps == 3 * MaxChunks + 12

StepsLeftInUnit ==
  CASE pc = "exists" -> 3 * MaxChunks + 11
    [] pc = "extract" -> 3 * MaxChunks + 10
    [] pc = "split" -> 3 * MaxChunks + 9
    [] pc = "split_loop" -> 3 * num_chunks - i + 8
    [] pc = "split_return" -> 2 * Len(chunks) + 7
    [] pc = "check_split" -> 2 * Len(chunks) + 6
    [] pc = "transcribe" -> 2 * (Len(chunks) - j + 1) + 5
    [] pc = "release" -> 2 * (Len(chunks) - j + 1) + 4
    [] pc = "check_text" -> 4
    [] pc = "save" -> 3
    [] pc = "finally" -> 2
    [] pc = "returned" -> 1
    [] OTHER -> 0

StepsLeft ==
  CASE pc = "main" -> MaxFiles * UnitSteps + 2
    [] pc = "exit" -> 0
    [] pc = "loop" -> (Len(video_files) - idx + 1) * UnitSteps + 1
    [] OTHER -> StepsLeftInUnit + (Len(video_files) - idx) * UnitSteps + 1

====
